---- MODULE Spec2Model ----
(***************************************************************************)
(* GamesmanMPI: the per-rank worker loop of the distributed retrograde      *)
(* solver (src/src/process.py).  Every MPI rank runs Process.run over its  *)
(* own priority queue, tables and pending registry; ranks interact only    *)
(* through the transport (send / probe / recv / abort).                    *)
(***************************************************************************)
EXTENDS Integers, Sequences, FiniteSets, TLC

\* Largest fleet size explored (world_size ranges over 1..MaxW).
MaxW == 2

\* Position encodings explored: the hash is one of MaxSalt + 1 functions.
MaxSalt == 2

\* Cap on self._id: a rank allocates at most MaxId job ids.  No game of
\* Games needs more than five on one rank; only games whose positions
\* cycle reach the cap.
MaxId == 6

\* Python's None (absent game state, parent or job id of a Job).
None == -1

\* Outcome tags, as the index tuples of _res_red use them.
WIN == 0
LOSS == 1
TIE == 2
DRAW == 3

PRIMITIVE_REMOTENESS == 0

\* Job kinds: the index of the handler in _dispatch_table.
FINISHED == 0
LOOK_UP == 1
RESOLVE == 2
SEND_BACK == 3
DISTRIBUTE == 4
CHECK_FOR_UPDATES == 5

\* The job id of the initial LOOK_UP the launcher queues on the root.
INITIAL_JOB_ID == 0

\* The position the launcher starts from (GameState.INITIAL_POS).
INITIAL_POS == 0

Ranks == 0 .. (MaxW - 1)

(***************************************************************************)
(* Game rules.  A game gives, for position p (stored at index p + 1), its  *)
(* successor list and its primitive value (None when not primitive).       *)
(* Every game below is acyclic and every non-primitive position has at     *)
(* least one successor.                                                    *)
(***************************************************************************)
Games ==
  << \* 1: primitive initial position
     [succ |-> << <<>> >>, prim |-> << WIN >>],
     \* 2: one-ply win
     [succ |-> << <<1>>, <<>> >>, prim |-> << None, LOSS >>],
     \* 3: two-ply forced loss
     [succ |-> << <<1>>, <<2>>, <<>> >>, prim |-> << None, None, WIN >>],
     \* 4: choice of wins
     [succ |-> << <<1, 2>>, <<>>, <<3>>, <<4>>, <<>> >>,
      prim |-> << None, LOSS, None, None, LOSS >>],
     \* 5: choice of losses
     [succ |-> << <<1, 2>>, <<>>, <<>> >>, prim |-> << None, WIN, WIN >>],
     \* 6: tie mix
     [succ |-> << <<1, 2>>, <<>>, <<>> >>, prim |-> << None, TIE, WIN >>],
     \* 7: three winning children
     [succ |-> << <<1, 2, 3>>, <<>>, <<>>, <<>> >>,
      prim |-> << None, WIN, WIN, WIN >>],
     \* 8: one losing child among three
     [succ |-> << <<1, 2, 3>>, <<>>, <<>>, <<>> >>,
      prim |-> << None, LOSS, WIN, WIN >>],
     \* 9: a slow losing child beside a primitive tie
     [succ |-> << <<1, 2>>, <<3>>, <<>>, <<>> >>,
      prim |-> << None, None, TIE, WIN >>],
     \* 10: the same non-primitive child reached by two moves
     [succ |-> << <<1, 1>>, <<2>>, <<>> >>, prim |-> << None, None, DRAW >>],
     \* 11: a diamond over a three-child position
     [succ |-> << <<1, 2>>, <<3>>, <<3>>, <<4, 5, 5>>, <<>>, <<>> >>,
      prim |-> << None, None, None, None, LOSS, WIN >>],
     \* 12: three children of mixed depth sharing grandchildren
     [succ |-> << <<1, 2, 3>>, <<4>>, <<4, 5>>, <<>>, <<>>, <<>> >>,
      prim |-> << None, None, None, TIE, WIN, LOSS >>],
     \* 13: a position reached at two depths
     [succ |-> << <<1, 2>>, <<2, 3>>, <<3>>, <<>> >>,
      prim |-> << None, None, None, DRAW >>]
  >>

(***************************************************************************)
(* Rules that break the solver's assumptions: a non-primitive position     *)
(* without successors, or positions that lead back to themselves.          *)
(***************************************************************************)
BrokenGames ==
  << \* a non-primitive dead end below the initial position
     [succ |-> << <<1>>, <<>> >>, prim |-> << None, None >>],
     \* a non-primitive dead end beside a primitive child
     [succ |-> << <<1, 2>>, <<>>, <<>> >>, prim |-> << None, WIN, None >>],
     \* two positions leading to each other
     [succ |-> << <<1>>, <<0>> >>, prim |-> << None, None >>],
     \* the same cycle with a primitive way out
     [succ |-> << <<2, 1>>, <<0>>, <<>> >>, prim |-> << None, None, LOSS >>],
     \* a cycle below the initial position
     [succ |-> << <<1>>, <<2>>, <<1, 3>>, <<>> >>,
      prim |-> << None, None, None, WIN >>]
  >>

AllGames == Games \o BrokenGames

\* GameState.is_primitive
is_primitive(g, p) == AllGames[g].prim[p + 1] # None

\* GameState.primitive
primitive(g, p) == AllGames[g].prim[p + 1]

\* GameState.expand
expand(g, p) == AllGames[g].succ[p + 1]

\* The deterministic position hash shared by all ranks; s selects the
\* encoding of positions that is hashed.
Hash(p, s) == (((p + s) * (p + s + 3)) \div 2) + 1

\* utils.negate
negate(s) == CASE s = WIN -> LOSS
               [] s = LOSS -> WIN
               [] s = TIE -> TIE
               [] s = DRAW -> DRAW

Max(a, b) == IF a >= b THEN a ELSE b
Min(a, b) == IF a <= b THEN a ELSE b

\* Process._res_red
res_red(res1, res2) ==
  LET nums == <<0, 3, 2, 1>>
      states == <<WIN, DRAW, TIE, LOSS>>
  IN  IF res2 = None THEN negate(res1)
      ELSE negate(states[Max(nums[res1 + 1], nums[res2 + 1]) + 1])

\* Process._remote_red on (state, remoteness) tuples; rem2 = <<>> is None.
remote_red(rem1, rem2) ==
  IF rem2 = <<>> THEN <<rem1[1], rem1[2]>>
  ELSE IF rem1[1] = LOSS \/ rem2[1] = LOSS
       THEN IF rem1[1] = LOSS /\ rem2[1] = WIN THEN <<LOSS, rem1[2]>>
            ELSE IF rem1[1] = WIN /\ rem2[1] = LOSS THEN <<LOSS, rem2[2]>>
            ELSE <<LOSS, Min(rem1[2], rem2[2])>>
  ELSE IF rem2[1] = WIN /\ rem1[1] = WIN
       THEN <<WIN, Max(rem1[2], rem2[2])>>
  ELSE <<rem1[1], Max(rem1[2], rem2[2])>>

\* utils.reduce_singleton(self._res_red, state_red): a left fold, a
\* singleton being reduced against None.
RECURSIVE fold_res(_, _)
fold_res(acc, rest) ==
  IF rest = <<>> THEN acc
  ELSE fold_res(res_red(acc, Head(rest)), Tail(rest))

reduce_res(state_red) ==
  IF Len(state_red) = 1 THEN res_red(state_red[1], None)
  ELSE fold_res(Head(state_red), Tail(state_red))

\* utils.reduce_singleton(self._remote_red, resolve_data)
RECURSIVE fold_remote(_, _)
fold_remote(acc, rest) ==
  IF rest = <<>> THEN acc
  ELSE fold_remote(remote_red(acc, Head(rest)), Tail(rest))

reduce_remote(resolve_data) ==
  IF Len(resolve_data) = 1 THEN remote_red(resolve_data[1], <<>>)
  ELSE fold_remote(Head(resolve_data), Tail(resolve_data))

(***************************************************************************)
(* State.  Every per-rank field is a function over Ranks; ranks at or      *)
(* above world_size do not exist and never move.  self.received is empty   *)
(* at every handler boundary (check_for_updates clears it before it        *)
(* returns) and is folded into CheckForUpdates.                            *)
(***************************************************************************)
VARIABLES
  world_size,   \* comm.Get_size(), the same on every rank
  game,         \* the rules module in use: an index into Games
  salt,         \* the position encoding the hash is taken of
  pc,           \* where each rank is in Process.run: "top" of an iteration,
                \* "pop" (about to take a job), "done" (left the loop), or
                \* the exception that ended the process
  IS_FINISHED,  \* Process.IS_FINISHED of each rank's interpreter
  work,         \* self.work, the jobs queued on each rank
  chan,         \* the transport: chan[s][d] is the FIFO from rank s to d
  resolved,     \* self.resolved
  remote,       \* self.remote
  id,           \* self._id
  counter,      \* self._counter
  pending,      \* self._pending
  output,       \* the lines printed on standard output
  log           \* history: per rank and job id, the position and number
                \* of LOOK_UPs of the DISTRIBUTE, the child results RESOLVE
                \* was dispatched with, and the value written on completion

vars == <<world_size, game, salt, pc, IS_FINISHED, work, chan, resolved, remote,
          id, counter, pending, output, log>>

\* Job(job_type, game_state, parent, job_id), the game state flattened
\* into its pos, state and remoteness.
Job(t, pos, state, remoteness, parent, job_id) ==
  [job_type |-> t, pos |-> pos, state |-> state, remoteness |-> remoteness,
   parent |-> parent, job_id |-> job_id]

\* A game state as RESOLVE appends it to a pending list.
GameStateOf(job) ==
  [pos |-> job.pos, state |-> job.state, remoteness |-> job.remoteness]

\* dict[k] = v
Put(tbl, k, v) == (k :> v) @@ tbl

\* del dict[k]
Del(tbl, k) == [x \in (DOMAIN tbl) \ {k} |-> tbl[x]]

\* GameState.get_hash(world_size)
get_hash(p) == Hash(p, salt) % world_size

\* self.root
root == get_hash(INITIAL_POS)

\* The jobs PriorityQueue.get may return: those of the smallest kind.
PopIdx(q) ==
  {i \in 1 .. Len(q) : \A k \in 1 .. Len(q) : q[i].job_type <= q[k].job_type}

RemoveAt(q, i) == SubSeq(q, 1, i - 1) \o SubSeq(q, i + 1, Len(q))

\* self.send(job, dest)
Send(ch, src, dest, job) ==
  [ch EXCEPT ![src][dest] = Append(@, job)]

\* self.abort(): the termination broadcast, FINISHED to every rank.
abort(ch, src) ==
  [s \in Ranks |-> [d \in Ranks |->
     IF s = src /\ d < world_size
     THEN Append(ch[s][d], Job(FINISHED, None, None, None, None, None))
     ELSE ch[s][d]]]

\* The launcher: the root starts with the initial LOOK_UP queued.
Init ==
  /\ world_size \in 1 .. MaxW
  /\ game \in 1 .. Len(Games)
  /\ salt \in 0 .. MaxSalt
  /\ pc = [r \in Ranks |-> "top"]
  /\ IS_FINISHED = [r \in Ranks |-> FALSE]
  /\ work = [r \in Ranks |->
               IF r = Hash(INITIAL_POS, salt) % world_size
               THEN << Job(LOOK_UP, INITIAL_POS, None, None, r, INITIAL_JOB_ID) >>
               ELSE << >>]
  /\ chan = [s \in Ranks |-> [d \in Ranks |-> << >>]]
  /\ resolved = [r \in Ranks |-> << >>]
  /\ remote = [r \in Ranks |-> << >>]
  /\ id = [r \in Ranks |-> 0]
  /\ counter = [r \in Ranks |-> << >>]
  /\ pending = [r \in Ranks |-> << >>]
  /\ output = << >>
  /\ log = [r \in Ranks |-> << >>]

(***************************************************************************)
(* Process.run, top of an iteration: the while test, then the root's       *)
(* check of the initial position.  Reporting sets the flag, prints and     *)
(* aborts, and the iteration goes on to the queue.                         *)
(***************************************************************************)
LoopTop(r) ==
  /\ r < world_size
  /\ pc[r] = "top"
  /\ IF IS_FINISHED[r]
     THEN /\ pc' = [pc EXCEPT ![r] = "done"]
          /\ UNCHANGED <<IS_FINISHED, output, chan>>
     ELSE IF r = root /\ INITIAL_POS \in DOMAIN resolved[r]
     THEN /\ IS_FINISHED' = [IS_FINISHED EXCEPT ![r] = TRUE]
          /\ IF INITIAL_POS \in DOMAIN remote[r]
             THEN /\ output' = Append(output,
                                 <<resolved[r][INITIAL_POS], remote[r][INITIAL_POS]>>)
                  /\ chan' = abort(chan, r)
                  /\ pc' = [pc EXCEPT ![r] = "pop"]
             ELSE \* KeyError while building the report
                  /\ pc' = [pc EXCEPT ![r] = "KeyError"]
                  /\ UNCHANGED <<output, chan>>
     ELSE /\ pc' = [pc EXCEPT ![r] = "pop"]
          /\ UNCHANGED <<IS_FINISHED, output, chan>>
  /\ UNCHANGED <<world_size, game, salt, work, resolved, remote, id, counter,
                 pending, log>>

\* Process.finished: the instance has __slots__ without IS_FINISHED and the
\* class attribute is read-only through it, so the assignment raises
\* AttributeError; the exception leaves run() and the flag is untouched.
finished(flag) == flag

Finished(r) ==
  /\ r < world_size
  /\ pc[r] = "pop"
  /\ \E i \in PopIdx(work[r]) :
       /\ work[r][i].job_type = FINISHED
       /\ work' = [work EXCEPT ![r] = RemoveAt(@, i)]
  /\ IS_FINISHED' = [IS_FINISHED EXCEPT ![r] = finished(@)]
  /\ pc' = [pc EXCEPT ![r] = "AttributeError"]
  /\ UNCHANGED <<world_size, game, salt, chan, resolved, remote, id, counter,
                 pending, output, log>>

\* A lookup without memoisation: a non-primitive position is distributed
\* again even when the tables hold it.
lookup_result_recompute(r, job) ==
  IF is_primitive(game, job.pos)
  THEN Job(SEND_BACK, job.pos, primitive(game, job.pos), PRIMITIVE_REMOTENESS,
           job.parent, job.job_id)
  ELSE Job(DISTRIBUTE, job.pos, job.state, job.remoteness,
           job.parent, job.job_id)

\* Process.lookup: the job it returns.
lookup_result(r, job) ==
  IF job.pos \in DOMAIN resolved[r] /\ job.pos \in DOMAIN remote[r]
  THEN Job(SEND_BACK, job.pos, resolved[r][job.pos], remote[r][job.pos],
           job.parent, job.job_id)
  ELSE IF is_primitive(game, job.pos)
  THEN Job(SEND_BACK, job.pos, primitive(game, job.pos), PRIMITIVE_REMOTENESS,
           job.parent, job.job_id)
  ELSE Job(DISTRIBUTE, job.pos, job.state, job.remoteness,
           job.parent, job.job_id)

\* Process.lookup: self.resolved after the call.
lookup_resolved(r, job) ==
  IF job.pos \in DOMAIN resolved[r] /\ job.pos \in DOMAIN remote[r]
  THEN resolved[r]
  ELSE IF is_primitive(game, job.pos)
  THEN Put(resolved[r], job.pos, primitive(game, job.pos))
  ELSE resolved[r]

\* A lookup that records a primitive position one move from the end.
lookup_remote_one(r, job) ==
  IF job.pos \in DOMAIN resolved[r] /\ job.pos \in DOMAIN remote[r]
  THEN remote[r]
  ELSE IF is_primitive(game, job.pos)
  THEN Put(remote[r], job.pos, PRIMITIVE_REMOTENESS + 1)
  ELSE remote[r]

\* Process.lookup: self.remote after the call.
lookup_remote(r, job) ==
  IF job.pos \in DOMAIN resolved[r] /\ job.pos \in DOMAIN remote[r]
  THEN remote[r]
  ELSE IF is_primitive(game, job.pos)
  THEN Put(remote[r], job.pos, PRIMITIVE_REMOTENESS)
  ELSE remote[r]

Lookup(r) ==
  /\ r < world_size
  /\ pc[r] = "pop"
  /\ \E i \in PopIdx(work[r]) :
       LET job == work[r][i] IN
       /\ job.job_type = LOOK_UP
       /\ resolved' = [resolved EXCEPT ![r] = lookup_resolved(r, job)]
       /\ remote' = [remote EXCEPT ![r] = lookup_remote(r, job)]
       /\ work' = [work EXCEPT ![r] = Append(RemoveAt(@, i), lookup_result(r, job))]
  /\ pc' = [pc EXCEPT ![r] = "top"]
  /\ UNCHANGED <<world_size, game, salt, IS_FINISHED, chan, id, counter, pending,
                 output, log>>

\* A counter that expects one result more than there are children.
add_pending_count_more(children) == Len(children) + 1

\* Process._add_pending_state: the counter stored for the new entry.
add_pending_count(children) == Len(children)

\* An id counter that stays where it is.
update_id_same(i) == i

\* Process._update_id
update_id(i) == i + 1

\* A distribute that sends every LOOK_UP to rank 0 instead of the owner.
distribute_dest_zero(child) == 0

\* Process.distribute: the rank a child's LOOK_UP is sent to.
distribute_dest(child) == get_hash(child)

\* A LOOK_UP that carries the id after the one its pending entry got.
distribute_job_next_id(r, child) == Job(LOOK_UP, child, None, None, r, id[r] + 1)

\* Process.distribute: the LOOK_UP built for a child.
distribute_job(r, child) == Job(LOOK_UP, child, None, None, r, id[r])

\* Process.distribute: the LOOK_UPs sent from r to d, in sending order.
distribute_sends(r, d, children) ==
  LET ToD(c) == distribute_dest(c) = d
      cs == SelectSeq(children, ToD)
  IN  [k \in 1 .. Len(cs) |-> distribute_job(r, cs[k])]

Distribute(r) ==
  /\ r < world_size
  /\ pc[r] = "pop"
  /\ \E i \in PopIdx(work[r]) :
       LET job == work[r][i]
           children == expand(game, job.pos)
       IN
       /\ job.job_type = DISTRIBUTE
       /\ id[r] < MaxId
       /\ work' = [work EXCEPT ![r] = RemoveAt(@, i)]
       /\ pending' = [pending EXCEPT ![r] =
                        Put(@, id[r], [job |-> job, tail |-> << >>])]
       /\ counter' = [counter EXCEPT ![r] =
                        Put(@, id[r], add_pending_count(children))]
       /\ chan' = [s \in Ranks |-> [d \in Ranks |->
                     IF s = r THEN chan[s][d] \o distribute_sends(r, d, children)
                     ELSE chan[s][d]]]
       /\ log' = [log EXCEPT ![r] =
                    Put(@, id[r], [pos |-> job.pos, n |-> Len(children),
                                   res |-> << >>, state |-> None,
                                   remoteness |-> None])]
  /\ id' = [id EXCEPT ![r] = update_id(@)]
  /\ pc' = [pc EXCEPT ![r] = "top"]
  /\ UNCHANGED <<world_size, game, salt, IS_FINISHED, resolved, remote, output>>

\* A poll that also runs while the queue holds a job and adds the message
\* it receives to the queue.
CheckForUpdatesEager(r) ==
  /\ r < world_size
  /\ pc[r] = "pop"
  /\ \E s \in Ranks :
       /\ chan[s][r] # << >>
       /\ work' = [work EXCEPT ![r] = Append(@, Head(chan[s][r]))]
       /\ chan' = [chan EXCEPT ![s][r] = Tail(@)]
  /\ pc' = [pc EXCEPT ![r] = "top"]
  /\ UNCHANGED <<world_size, game, salt, IS_FINISHED, resolved, remote, id,
                 counter, pending, output, log>>

\* A poll that moves every message waiting from one source into the queue.
CheckForUpdatesDrain(r) ==
  /\ r < world_size
  /\ pc[r] = "pop"
  /\ work[r] = << >>
  /\ \E s \in Ranks :
       /\ chan[s][r] # << >>
       /\ work' = [work EXCEPT ![r] = chan[s][r]]
       /\ chan' = [chan EXCEPT ![s][r] = << >>]
  /\ pc' = [pc EXCEPT ![r] = "top"]
  /\ UNCHANGED <<world_size, game, salt, IS_FINISHED, resolved, remote, id,
                 counter, pending, output, log>>

\* Process.check_for_updates: probe blocks until some rank's message is
\* there, recv takes the oldest message of one source, and the received
\* list (that one job) is moved to the queue.
CheckForUpdates(r) ==
  /\ r < world_size
  /\ pc[r] = "pop"
  /\ work[r] = << >>
  /\ \E s \in Ranks :
       /\ chan[s][r] # << >>
       /\ work' = [work EXCEPT ![r] = << Head(chan[s][r]) >>]
       /\ chan' = [chan EXCEPT ![s][r] = Tail(@)]
  /\ pc' = [pc EXCEPT ![r] = "top"]
  /\ UNCHANGED <<world_size, game, salt, IS_FINISHED, resolved, remote, id,
                 counter, pending, output, log>>

\* Process.send_back: the RESOLVE job built from a SEND_BACK job.
send_back_job(job) ==
  Job(RESOLVE, job.pos, job.state, job.remoteness, job.parent, job.job_id)

SendBack(r) ==
  /\ r < world_size
  /\ pc[r] = "pop"
  /\ \E i \in PopIdx(work[r]) :
       LET job == work[r][i]
           resolve_job == send_back_job(job)
       IN
       /\ job.job_type = SEND_BACK
       /\ work' = [work EXCEPT ![r] = RemoveAt(@, i)]
       /\ chan' = Send(chan, r, resolve_job.parent, resolve_job)
  /\ pc' = [pc EXCEPT ![r] = "top"]
  /\ UNCHANGED <<world_size, game, salt, IS_FINISHED, resolved, remote, id,
                 counter, pending, output, log>>

\* Process.resolve: resolve_data, the (state, remoteness) tuples of the
\* collected children.
resolve_data(tail) == [k \in 1 .. Len(tail) |-> <<tail[k].state, tail[k].remoteness>>]

\* Process.resolve: the outcome written for the parent.
resolve_state(tail) ==
  LET data == resolve_data(tail)
      state_red == [k \in 1 .. Len(data) |-> data[k][1]]
  IN  reduce_res(state_red)

\* Process.resolve: the remoteness written for the parent.
resolve_remote(tail) == reduce_remote(resolve_data(tail))[2] + 1

\* A resolve whose completion test is never met.
resolve_complete_never(count) == count < 0

\* A resolve that completes a parent while one child result is missing.
resolve_complete_early(count) == count <= 1

\* Process.resolve: the test that the last child result has arrived.
resolve_complete(count) == count = 0

\* A resolve that answers with the RESOLVE job's own parent and job id
\* instead of those of the stored DISTRIBUTE job.
resolve_send_back_own(job, to_resolve, state, remoteness) ==
  Job(SEND_BACK, job.pos, state, remoteness, job.parent, job.job_id)

\* Process.resolve: the SEND_BACK job queued for the requester; it carries
\* the game state of the RESOLVE job, overwritten with the parent's value
\* when the parent is not primitive.
resolve_send_back(job, to_resolve, state, remoteness) ==
  Job(SEND_BACK, job.pos, state, remoteness, to_resolve.parent,
      to_resolve.job_id)

Resolve(r) ==
  /\ r < world_size
  /\ pc[r] = "pop"
  /\ \E i \in PopIdx(work[r]) :
       LET job == work[r][i]
           j == job.job_id
       IN
       /\ job.job_type = RESOLVE
       /\ IF j \notin DOMAIN counter[r] \/ j \notin DOMAIN pending[r]
          THEN \* KeyError: the exception leaves run()
               /\ pc' = [pc EXCEPT ![r] = "KeyError"]
               /\ work' = [work EXCEPT ![r] = RemoveAt(@, i)]
               /\ UNCHANGED <<resolved, remote, counter, pending, log>>
          ELSE
            LET count == counter[r][j] - 1
                entry == [pending[r][j] EXCEPT !.tail = Append(@, GameStateOf(job))]
                to_resolve == entry.job
                p == to_resolve.pos
                state == IF is_primitive(game, p) THEN primitive(game, p)
                         ELSE resolve_state(entry.tail)
                remoteness == IF is_primitive(game, p) THEN 0
                              ELSE resolve_remote(entry.tail)
                to == IF is_primitive(game, p)
                      THEN resolve_send_back(job, to_resolve, job.state,
                                             job.remoteness)
                      ELSE resolve_send_back(job, to_resolve, state, remoteness)
            IN
            /\ pc' = [pc EXCEPT ![r] = "top"]
            /\ log' = [log EXCEPT ![r] =
                         IF j \in DOMAIN @
                         THEN [@ EXCEPT ![j] =
                                 [pos |-> @.pos, n |-> @.n,
                                  res |-> Append(@.res, GameStateOf(job)),
                                  state |-> IF resolve_complete(count)
                                            THEN state ELSE @.state,
                                  remoteness |-> IF resolve_complete(count)
                                                 THEN remoteness
                                                 ELSE @.remoteness]]
                         ELSE @]
            /\ IF resolve_complete(count)
               THEN /\ resolved' = [resolved EXCEPT ![r] = Put(@, p, state)]
                    /\ remote' = [remote EXCEPT ![r] = Put(@, p, remoteness)]
                    /\ work' = [work EXCEPT ![r] = Append(RemoveAt(@, i), to)]
                    /\ pending' = [pending EXCEPT ![r] = Del(@, j)]
                    /\ counter' = [counter EXCEPT ![r] = Del(@, j)]
               ELSE /\ counter' = [counter EXCEPT ![r] = Put(@, j, count)]
                    /\ pending' = [pending EXCEPT ![r] = Put(@, j, entry)]
                    /\ work' = [work EXCEPT ![r] = RemoveAt(@, i)]
                    /\ UNCHANGED <<resolved, remote>>
  /\ UNCHANGED <<world_size, game, salt, IS_FINISHED, chan, id, output>>

Step(r) ==
  \/ LoopTop(r)
  \/ Finished(r)
  \/ Lookup(r)
  \/ Resolve(r)
  \/ SendBack(r)
  \/ Distribute(r)
  \/ CheckForUpdates(r)

Next == \E r \in Ranks : Step(r)

Spec == Init /\ [][Next]_vars

\* Every rank's loop keeps running while it has a step to take; a blocked
\* probe returns once a message for the rank is in the transport.
FairSpec == Spec /\ \A r \in Ranks : WF_vars(Step(r))

\* The launcher with any rules module, the broken ones included.
InitAll ==
  /\ world_size \in 1 .. MaxW
  /\ game \in 1 .. Len(AllGames)
  /\ salt \in 0 .. MaxSalt
  /\ pc = [r \in Ranks |-> "top"]
  /\ IS_FINISHED = [r \in Ranks |-> FALSE]
  /\ work = [r \in Ranks |->
               IF r = Hash(INITIAL_POS, salt) % world_size
               THEN << Job(LOOK_UP, INITIAL_POS, None, None, r, INITIAL_JOB_ID) >>
               ELSE << >>]
  /\ chan = [s \in Ranks |-> [d \in Ranks |-> << >>]]
  /\ resolved = [r \in Ranks |-> << >>]
  /\ remote = [r \in Ranks |-> << >>]
  /\ id = [r \in Ranks |-> 0]
  /\ counter = [r \in Ranks |-> << >>]
  /\ pending = [r \in Ranks |-> << >>]
  /\ output = << >>
  /\ log = [r \in Ranks |-> << >>]

SpecAll == InitAll /\ [][Next]_vars

FairSpecAll == SpecAll /\ \A r \in Ranks : WF_vars(Step(r))

(***************************************************************************)
(* Reference definitions the properties below are stated with.             *)
(***************************************************************************)
\* Preference of the player choosing among child outcomes:
\* LOSS > TIE > DRAW > WIN.
Pref(o) == CASE o = LOSS -> 3
             [] o = TIE -> 2
             [] o = DRAW -> 1
             [] o = WIN -> 0

\* The most preferred outcome of a non-empty set of outcomes.
MostPreferred(os) == CHOOSE o \in os : \A o2 \in os : Pref(o) >= Pref(o2)

Negation(o) == CASE o = WIN -> LOSS
                 [] o = LOSS -> WIN
                 [] o = TIE -> TIE
                 [] o = DRAW -> DRAW

SetMin(S) == CHOOSE x \in S : \A y \in S : x <= y
SetMax(S) == CHOOSE x \in S : \A y \in S : x >= y

\* The sequential retrograde solver: outcome and remoteness of position p
\* in game g.
RECURSIVE RefOutcome(_, _)
RefOutcome(g, p) ==
  IF Games[g].prim[p + 1] # None THEN Games[g].prim[p + 1]
  ELSE LET cs == Games[g].succ[p + 1]
       IN  Negation(MostPreferred({RefOutcome(g, cs[k]) : k \in 1 .. Len(cs)}))

RECURSIVE RefRemoteness(_, _)
RefRemoteness(g, p) ==
  IF Games[g].prim[p + 1] # None THEN 0
  ELSE LET cs == Games[g].succ[p + 1]
           losing == {k \in 1 .. Len(cs) : RefOutcome(g, cs[k]) = LOSS}
       IN  IF RefOutcome(g, p) = WIN
           THEN 1 + SetMin({RefRemoteness(g, cs[k]) : k \in losing})
           ELSE 1 + SetMax({RefRemoteness(g, cs[k]) : k \in 1 .. Len(cs)})

Reported == Len(output) >= 1

\* The log entries of pending entries that have completed.
Completed(r) == {j \in DOMAIN log[r] : log[r][j].state # None}

\* C1: the (outcome, remoteness) the root reports for the initial position
\* is the value the sequential retrograde solver computes for it.
C1_ReportIsReferenceValue ==
  \A k \in 1 .. Len(output) :
    output[k] = <<RefOutcome(game, INITIAL_POS), RefRemoteness(game, INITIAL_POS)>>

\* Ranks that have left Process.run: by the while test, or by an exception.
Halted(r) == pc[r] \in {"done", "AttributeError", "KeyError"}

AllHalted == \A r \in Ranks : r < world_size => Halted(r)

\* C2: under weak fairness of every rank's loop, the root eventually emits
\* the final report, and once it has, every rank eventually stops
\* dispatching jobs.
C2_ReportsAndHalts == (<>Reported) /\ (Reported ~> AllHalted)

\* A run of C2 that has ended: a fleet of two ranks that both distributed
\* positions, the report printed and both ranks out of the loop.
C2_Witness ==
  /\ world_size = 2
  /\ Reported
  /\ AllHalted
  /\ \A r \in Ranks : DOMAIN log[r] # {}

\* The orders in which the child results of a log entry could have arrived.
Orders(n) == {f \in [1 .. n -> 1 .. n] : \A a, b \in 1 .. n : f[a] = f[b] => a = b}

Reorder(res, f) == [k \in 1 .. Len(res) |-> res[f[k]]]

\* C3: the parent value a completed pending entry wrote is the value
\* every other arrival order of the same child results yields.
C3_OrderIndependent ==
  \A r \in Ranks : \A j \in Completed(r) :
    LET e == log[r][j] IN
    \A f \in Orders(Len(e.res)) :
      /\ resolve_state(Reorder(e.res, f)) = e.state
      /\ resolve_remote(Reorder(e.res, f)) = e.remoteness

\* The law of C4 for one completed entry with child outcomes os (a set).
OutcomeLaw(parent, os) ==
  /\ parent = Negation(MostPreferred(os))
  /\ parent = WIN <=> LOSS \in os
  /\ parent = LOSS <=> os = {WIN}
  /\ parent = TIE <=> (LOSS \notin os /\ TIE \in os)
  /\ parent = DRAW <=> (LOSS \notin os /\ TIE \notin os /\ DRAW \in os)

\* C4: the outcome resolve() writes for a non-primitive parent is the
\* negation, applied once, of the most preferred child outcome.
C4_OutcomeIsNegatedPick ==
  \A r \in Ranks : \A j \in Completed(r) :
    LET e == log[r][j] IN
    OutcomeLaw(e.state, {e.res[k].state : k \in 1 .. Len(e.res)})

\* C5: a WIN parent gets 1 + the least remoteness of its LOSS children, a
\* LOSS parent 1 + the greatest remoteness of all its children.  Stated
\* for the entries whose outcome is the negated pick of the child outcomes,
\* so that a WIN parent has a LOSS child.
C5_RemotenessLaw ==
  \A r \in Ranks : \A j \in Completed(r) :
    LET e == log[r][j]
        all == 1 .. Len(e.res)
        losing == {k \in all : e.res[k].state = LOSS}
    IN
    e.state = Negation(MostPreferred({e.res[k].state : k \in all})) =>
      /\ e.state = WIN =>
           e.remoteness = 1 + SetMin({e.res[k].remoteness : k \in losing})
      /\ e.state = LOSS =>
           e.remoteness = 1 + SetMax({e.res[k].remoteness : k \in all})

\* C6: no step writes a key that is already in resolved or remote, and no
\* step changes the value stored under such a key.
C6_TablesMonotonic ==
  [][\A r \in Ranks :
       /\ \A p \in DOMAIN resolved[r] :
            /\ p \in DOMAIN resolved'[r]
            /\ resolved'[r][p] = resolved[r][p]
            /\ \A j \in Completed(r)' \ Completed(r) : log'[r][j].pos # p
       /\ \A p \in DOMAIN remote[r] :
            /\ p \in DOMAIN remote'[r]
            /\ remote'[r][p] = remote[r][p]
            /\ \A j \in Completed(r)' \ Completed(r) : log'[r][j].pos # p]_vars

\* C7: on every rank the two tables have the same keys, and every key is
\* a position the rank owns.
C7_TablesAgreeOnOwnedKeys ==
  \A r \in Ranks :
    /\ DOMAIN resolved[r] = DOMAIN remote[r]
    /\ \A p \in DOMAIN resolved[r] \cup DOMAIN remote[r] :
         Hash(p, salt) % world_size = r

\* Both ranks of a fleet of two hold table entries, one of them written by
\* resolve() for a non-primitive position.
C7_Witness ==
  /\ world_size = 2
  /\ DOMAIN resolved[0] # {}
  /\ DOMAIN resolved[1] # {}
  /\ \E r \in Ranks : \E p \in DOMAIN resolved[r] : ~is_primitive(game, p)

\* The kinds of job that carry a (parent, job_id) pair on a round trip.
RoundTrip(job) == job.job_type \in {LOOK_UP, DISTRIBUTE, SEND_BACK, RESOLVE}

\* How many jobs of a sequence carry (parent = r, job_id = j).
Carrying(q, r, j) ==
  Cardinality({k \in 1 .. Len(q) :
                 RoundTrip(q[k]) /\ q[k].parent = r /\ q[k].job_id = j})

RECURSIVE Sum(_, _)
Sum(f, S) == IF S = {} THEN 0
             ELSE LET x == CHOOSE y \in S : TRUE IN f[x] + Sum(f, S \ {x})

\* The jobs carrying (r, j) that are still on their way: queued, in the
\* transport, or held as the original job of a pending entry.
InFlight(r, j) ==
  Sum([q \in Ranks |-> Carrying(work[q], r, j)], Ranks)
  + Sum([sd \in Ranks \X Ranks |-> Carrying(chan[sd[1]][sd[2]], r, j)],
        Ranks \X Ranks)
  + Sum([q \in Ranks |->
           Cardinality({k \in DOMAIN pending[q] :
                          /\ pending[q][k].job.parent = r
                          /\ pending[q][k].job.job_id = j})], Ranks)

\* The launcher's LOOK_UP travels with (root, INITIAL_JOB_ID) and its reply
\* is never received: it counts once for that pair.
InitialTrip(r, j) == IF r = root /\ j = INITIAL_JOB_ID THEN 1 ELSE 0

AllJobs ==
  UNION {{work[q][k] : k \in 1 .. Len(work[q])} : q \in Ranks}
  \cup UNION {{chan[sd[1]][sd[2]][k] : k \in 1 .. Len(chan[sd[1]][sd[2]])} :
              sd \in Ranks \X Ranks}
  \cup UNION {{pending[q][k].job : k \in DOMAIN pending[q]} : q \in Ranks}

\* C8: for the DISTRIBUTE on rank r that allocated id j and sent n LOOK_UPs,
\* at most n RESOLVEs with id j are dispatched on r; every LOOK_UP is
\* answered by one job that keeps (parent = r, job_id = j) until it is
\* dispatched on r as a RESOLVE (the jobs on their way plus the RESOLVEs
\* dispatched are n); RESOLVEs travel to their parent; and when the root
\* reports, exactly n have been dispatched for every DISTRIBUTE.
C8_RoundTrip ==
  /\ \A r \in Ranks : \A j \in DOMAIN log[r] :
       /\ Len(log[r][j].res) <= log[r][j].n
       /\ InFlight(r, j) + Len(log[r][j].res) = log[r][j].n + InitialTrip(r, j)
       /\ Reported => Len(log[r][j].res) = log[r][j].n
  /\ \A job \in AllJobs :
       RoundTrip(job) =>
         \/ job.job_id \in DOMAIN log[job.parent]
         \/ InitialTrip(job.parent, job.job_id) = 1
  /\ \A s \in Ranks : \A d \in Ranks : \A k \in 1 .. Len(chan[s][d]) :
       chan[s][d][k].job_type = RESOLVE => chan[s][d][k].parent = d
  /\ \A r \in Ranks : pc[r] # "KeyError"

\* A DISTRIBUTE of three LOOK_UPs in a fleet of two whose three RESOLVEs
\* have all been dispatched, while another rank's DISTRIBUTE got its own.
C8_Witness ==
  /\ world_size = 2
  /\ \E r \in Ranks : \E j \in DOMAIN log[r] :
       log[r][j].n = 3 /\ Len(log[r][j].res) = 3
  /\ \A r \in Ranks : \E j \in DOMAIN log[r] :
       log[r][j].n >= 1 /\ Len(log[r][j].res) = log[r][j].n

\* A loop iteration of rank r dispatches a job (or dies in the handler).
Dispatches(r) == pc[r] = "pop" /\ pc'[r] # "pop"

\* C9: the report is printed at most once, and once the root has printed
\* it the root dispatches no further job.
C9_RootStopsAtReport ==
  [][/\ Len(output') <= 1
     /\ Reported => ~Dispatches(root)]_vars

\* The job of kind FINISHED is the one the queue of rank r hands out.
FinishedIsNext(r) ==
  \E i \in PopIdx(work[r]) : work[r][i].job_type = FINISHED

C11_NoEntryWithoutChildren ==
  \A r \in Ranks : \A j \in DOMAIN counter[r] : counter[r][j] # 0

\* The job of kind t is the one the queue of rank r hands out next.
NextIs(r, t) == \E i \in PopIdx(work[r]) : work[r][i].job_type = t

\* The job the queue of rank r hands out next (the queue is not empty).
NextJob(r) == work[r][CHOOSE i \in PopIdx(work[r]) : TRUE]

\* The number of successors of the position a pending entry waits for.
Expected(e) == Len(expand(game, e.job.pos))

\* C12, at every handler boundary: counters and pending lists have the
\* same keys, every live entry has counter >= 1, and its counter plus the
\* number of child results collected is the number of successors.
PendingAccounts ==
  \A r \in Ranks :
    /\ DOMAIN counter[r] = DOMAIN pending[r]
    /\ \A j \in DOMAIN pending[r] :
         /\ counter[r][j] >= 1
         /\ counter[r][j] + Len(pending[r][j].tail) = Expected(pending[r][j])

\* C12, per step: a dispatched DISTRIBUTE creates exactly one entry, with
\* counter = n and nothing collected; an entry is removed only by the
\* RESOLVE that takes its counter from 1 to 0, and that step writes both
\* tables for the parent and queues exactly one SEND_BACK, addressed to
\* the original requester.
PendingSteps ==
  \A r \in Ranks :
    LET new == DOMAIN pending'[r] \ DOMAIN pending[r]
        gone == DOMAIN pending[r] \ DOMAIN pending'[r]
    IN
    /\ (Dispatches(r) /\ NextIs(r, DISTRIBUTE)) => Cardinality(new) = 1
    /\ \A j \in new :
         /\ Dispatches(r) /\ NextIs(r, DISTRIBUTE)
         /\ pending'[r][j].job = NextJob(r)
         /\ pending'[r][j].tail = << >>
         /\ counter'[r][j] = Expected(pending'[r][j])
    /\ (Dispatches(r) /\ NextIs(r, RESOLVE)
        /\ NextJob(r).job_id \in DOMAIN counter[r]
        /\ counter[r][NextJob(r).job_id] = 1) => gone = {NextJob(r).job_id}
    /\ \A j \in gone :
         LET e == pending[r][j] IN
         /\ Dispatches(r) /\ NextIs(r, RESOLVE) /\ NextJob(r).job_id = j
         /\ counter[r][j] = 1
         /\ j \notin DOMAIN counter'[r]
         /\ e.job.pos \in DOMAIN resolved'[r] \cap DOMAIN remote'[r]
         /\ Len(work'[r]) = 1
         /\ work'[r][1].job_type = SEND_BACK
         /\ work'[r][1].parent = e.job.parent
         /\ work'[r][1].job_id = e.job.job_id

\* C12: the pending accounting invariant, in every state and every step.
C12_PendingAccounting == []PendingAccounts /\ [][PendingSteps]_vars

\* A parent of three children, in a fleet of two, that has collected two
\* results and waits for the third.
C12_Witness ==
  /\ world_size = 2
  /\ \E r \in Ranks : \E j \in DOMAIN pending[r] :
       /\ Expected(pending[r][j]) = 3
       /\ Len(pending[r][j].tail) = 2
       /\ counter[r][j] = 1

\* The messages rank r appends to its channel towards d in this step.
Sent(r, d) == SubSeq(chan'[r][d], Len(chan[r][d]) + 1, Len(chan'[r][d]))

\* C13, per step: the id counter of a rank never goes back; the DISTRIBUTE
\* it dispatches takes a strictly larger next id, creates its entry under
\* the id no entry of this rank ever had, and every LOOK_UP it sends
\* carries this rank and that id.
JobIdSteps ==
  \A r \in Ranks :
    /\ id'[r] >= id[r]
    /\ (Dispatches(r) /\ NextIs(r, DISTRIBUTE)) =>
         /\ id'[r] > id[r]
         /\ DOMAIN pending'[r] \ DOMAIN pending[r] = {id[r]}
         /\ id[r] \notin DOMAIN log[r]
         /\ \A d \in Ranks : \A k \in 1 .. Len(Sent(r, d)) :
              /\ Sent(r, d)[k].job_type = LOOK_UP
              /\ Sent(r, d)[k].parent = r
              /\ Sent(r, d)[k].job_id = id[r]
         /\ \E d \in Ranks : Sent(r, d) # << >>

\* C13, per state: every entry a rank ever created has an id below the
\* rank's id counter, and every live entry is one of them.
JobIdsBelowNext ==
  \A r \in Ranks :
    /\ DOMAIN pending[r] \subseteq DOMAIN log[r]
    /\ \A j \in DOMAIN log[r] : 0 <= j /\ j < id[r]

\* C13: job ids are unique, so the pair (parent rank, job id) names one
\* pending entry over the lifetime of the fleet.
C13_JobIdsUnique == []JobIdsBelowNext /\ [][JobIdSteps]_vars

\* A rank of a fleet of two that has created three entries.
C13_Witness ==
  /\ world_size = 2
  /\ \E r \in Ranks : Cardinality(DOMAIN log[r]) >= 3

\* The positions of the game being solved.
Positions == 0 .. (Len(AllGames[game].succ) - 1)

\* The entries (rank, id) ever created for position p.
EntriesFor(p) ==
  {e \in Ranks \X (0 .. MaxId) :
     e[2] \in DOMAIN log[e[1]] /\ log[e[1]][e[2]].pos = p}

\* The entries (rank, id) of a parent of position p that have collected the
\* results of all their children, the one for p among them.
AnsweredTo(p) ==
  {e \in Ranks \X (0 .. MaxId) :
     /\ e[2] \in DOMAIN log[e[1]]
     /\ \E k \in 1 .. Len(expand(game, log[e[1]][e[2]].pos)) :
          expand(game, log[e[1]][e[2]].pos)[k] = p
     /\ Len(log[e[1]][e[2]].res) = log[e[1]][e[2]].n}

\* C14: a LOOK_UP for a position the tables hold changes no table, no
\* pending entry, no counter and no id, and queues exactly one SEND_BACK
\* with the stored outcome and remoteness and the LOOK_UP's own parent and
\* job id; a LOOK_UP for an unresolved non-primitive position changes no
\* table and queues, locally, a DISTRIBUTE with the same parent and job id.
LookupFrame ==
  \A r \in Ranks :
    (Dispatches(r) /\ NextIs(r, LOOK_UP)) =>
      LET job == NextJob(r)
          p == job.pos
      IN
      /\ p \in DOMAIN resolved[r] =>
           /\ p \in DOMAIN remote[r]
           /\ resolved' = resolved /\ remote' = remote
           /\ pending' = pending /\ counter' = counter /\ id' = id
           /\ chan' = chan
           /\ work'[r] = << Job(SEND_BACK, p, resolved[r][p], remote[r][p],
                                job.parent, job.job_id) >>
      /\ (p \notin DOMAIN resolved[r] /\ ~is_primitive(game, p)) =>
           /\ resolved' = resolved /\ remote' = remote
           /\ pending' = pending /\ counter' = counter /\ id' = id
           /\ chan' = chan
           /\ Len(work'[r]) = 1
           /\ work'[r][1].job_type = DISTRIBUTE
           /\ work'[r][1].pos = p
           /\ work'[r][1].parent = job.parent
           /\ work'[r][1].job_id = job.job_id

C14_LookupFrame == [][LookupFrame]_vars

\* A non-primitive position that was distributed once in the fleet and
\* whose value has been delivered to two parent entries: one of them was
\* answered from the tables.
C14_Witness ==
  /\ world_size = 2
  /\ \E p \in Positions :
       /\ ~is_primitive(game, p)
       /\ Cardinality(EntriesFor(p)) = 1
       /\ Cardinality(AnsweredTo(p)) >= 2

\* C15: a primitive position in a rank's tables has its primitive value
\* and remoteness 0, and no DISTRIBUTE job, pending entry or entry ever
\* created is for a primitive position.
C15_PrimitivesNeverPending ==
  \A r \in Ranks :
    /\ \A p \in DOMAIN resolved[r] \cup DOMAIN remote[r] :
         is_primitive(game, p) =>
           /\ p \in DOMAIN resolved[r] /\ resolved[r][p] = primitive(game, p)
           /\ p \in DOMAIN remote[r] /\ remote[r][p] = PRIMITIVE_REMOTENESS
    /\ \A k \in 1 .. Len(work[r]) :
         work[r][k].job_type = DISTRIBUTE => ~is_primitive(game, work[r][k].pos)
    /\ \A j \in DOMAIN pending[r] : ~is_primitive(game, pending[r][j].job.pos)
    /\ \A j \in DOMAIN log[r] : ~is_primitive(game, log[r][j].pos)

\* A fleet of two in which a rank holds a primitive position in its tables
\* and its value has reached a parent's pending entry.
C15_Witness ==
  /\ world_size = 2
  /\ \E r \in Ranks : \E p \in DOMAIN resolved[r] :
       /\ is_primitive(game, p)
       /\ AnsweredTo(p) # {}

(***************************************************************************)
(* The transport and the local queue.                                      *)
(***************************************************************************)
\* The kinds of job that travel through the transport.
MessageKinds == {FINISHED, LOOK_UP, RESOLVE}

\* Rank r takes the oldest message of exactly one source into its empty
\* queue, which then holds that message and nothing else.
Receives(r) ==
  /\ Dispatches(r)
  /\ work[r] = << >>
  /\ \E s \in Ranks :
       /\ chan[s][r] # << >>
       /\ chan'[s][r] = Tail(chan[s][r])
       /\ work'[r] = << Head(chan[s][r]) >>
       /\ \A t \in Ranks \ {s} : Len(chan'[t][r]) >= Len(chan[t][r])

\* C16: a message leaves the transport towards r, and a job of a message
\* kind appears in r's queue, only in a step in which r polls with an empty
\* queue and takes one message; a step in which r sends (to itself or
\* not) leaves no job of a message kind in r's queue.
TransportSteps ==
  \A r \in Ranks :
    /\ (\E s \in Ranks : Len(chan'[s][r]) < Len(chan[s][r])) => Receives(r)
    /\ (/\ work'[r] # work[r]
        /\ \E k \in 1 .. Len(work'[r]) : work'[r][k].job_type \in MessageKinds)
         => Receives(r)
    /\ (\E d \in Ranks : Sent(r, d) # << >>) =>
         \A k \in 1 .. Len(work'[r]) : work'[r][k].job_type \notin MessageKinds

C16_OnlyPollReceives == [][TransportSteps]_vars

\* A rank of a fleet of two has taken from the transport a LOOK_UP it sent
\* to itself for a child it owns.
C16_Witness ==
  /\ world_size = 2
  /\ \E r \in Ranks :
       /\ pc[r] = "top"
       /\ Len(work[r]) = 1
       /\ work[r][1].job_type = LOOK_UP
       /\ work[r][1].parent = r
       /\ work[r][1].pos # INITIAL_POS

(***************************************************************************)
(* Rules whose position graph has a cycle.                                 *)
(***************************************************************************)
\* The positions one move below p; the solver never expands a primitive.
Moves(g, p) ==
  IF is_primitive(g, p) THEN {}
  ELSE {expand(g, p)[k] : k \in 1 .. Len(expand(g, p))}

RECURSIVE Closure(_, _, _)
\* The positions reached from the set S in at most n more moves.
Closure(g, S, n) ==
  IF n = 0 THEN S
  ELSE Closure(g, S \cup UNION {Moves(g, p) : p \in S}, n - 1)

\* The positions reached from p in one move or more.
Below(g, p) == Closure(g, Moves(g, p), Len(AllGames[g].succ))

\* For every game, the positions on a cycle of non-primitive positions that
\* the initial position reaches.
CycleTable ==
  [g \in 1 .. Len(AllGames) |->
     {p \in 0 .. (Len(AllGames[g].succ) - 1) :
        /\ p \in {INITIAL_POS} \cup Below(g, INITIAL_POS)
        /\ p \in Below(g, p)}]

\* The positions on a reachable cycle of the game being solved.
CyclePositions == CycleTable[game]

\* With a cycle, no position on it is in a resolved table and nothing is
\* reported.
CycleUnsolved ==
  (CyclePositions # {}) =>
    /\ \A r \in Ranks : DOMAIN resolved[r] \cap CyclePositions = {}
    /\ output = << >>

\* A pending entry created for a position on a cycle survives every step.
CycleEntriesKept ==
  \A r \in Ranks : \A j \in DOMAIN pending[r] :
    pending[r][j].job.pos \in CyclePositions =>
      j \in DOMAIN pending'[r] /\ j \in DOMAIN counter'[r]

\* C17: with a reachable cycle of non-primitive positions, the positions on
\* it are never resolved, the root never reports, the pending entries for
\* them are never destroyed, and new entries are allocated until the id
\* bound of the model is met.
C17_CycleNeverResolves ==
  /\ []CycleUnsolved
  /\ [][CycleEntriesKept]_vars
  /\ <>(CyclePositions # {} => \E r \in Ranks : id[r] = MaxId)

\* A rank of a fleet of two holds two live entries for one position on a
\* cycle.
C17_Witness ==
  /\ world_size = 2
  /\ \E r \in Ranks : \E j, k \in DOMAIN pending[r] :
       /\ j # k
       /\ pending[r][j].job.pos = pending[r][k].job.pos
       /\ pending[r][j].job.pos \in CyclePositions

(***************************************************************************)
(* RESOLVE jobs and the entries they are for.                              *)
(***************************************************************************)
\* Every RESOLVE a rank dispatches names a live entry of that rank whose
\* counter is at least 1.
ResolveHasEntry ==
  \A r \in Ranks :
    (Dispatches(r) /\ NextIs(r, RESOLVE)) =>
      /\ NextJob(r).job_id \in DOMAIN pending[r] \cap DOMAIN counter[r]
      /\ counter[r][NextJob(r).job_id] >= 1

\* C18: a RESOLVE never arrives for an unknown or cleaned-up id, so no rank
\* ends in resolve()'s KeyError; the reply to the initial LOOK_UP is sent
\* to the root, which has left its loop by then and never dispatches it.
C18_ResolveHasLiveEntry ==
  /\ [](\A r \in Ranks : pc[r] # "KeyError")
  /\ [][ResolveHasEntry]_vars

\* RESOLVE jobs have been dispatched in a fleet of two, the root has left
\* its loop and the reply to the initial LOOK_UP waits in the transport.
C18_Witness ==
  /\ world_size = 2
  /\ pc[root] = "done"
  /\ \E r \in Ranks : \E j \in DOMAIN log[r] : log[r][j].res # << >>
  /\ chan[root][root] # << >>
  /\ LET reply == chan[root][root][Len(chan[root][root])] IN
       /\ reply.job_type = RESOLVE
       /\ reply.parent = root
       /\ reply.job_id = INITIAL_JOB_ID

\* The queue of every rank holds at most one job.
QueueAtMostOne == \A r \in Ranks : Len(work[r]) <= 1

\* While a DISTRIBUTE is in the queue of r, r takes nothing from the
\* transport, and the job r dispatches is that DISTRIBUTE.
DistributeFirst ==
  \A r \in Ranks :
    (\E k \in 1 .. Len(work[r]) : work[r][k].job_type = DISTRIBUTE) =>
      /\ \A s \in Ranks : Len(chan'[s][r]) >= Len(chan[s][r])
      /\ Dispatches(r) => /\ NextIs(r, DISTRIBUTE)
                          /\ DOMAIN pending'[r] # DOMAIN pending[r]

\* C19: at every loop-iteration boundary the queue of every rank holds at
\* most one job, and a queued DISTRIBUTE is dispatched before any message
\* waiting in the transport is received.
C19_QueueAtMostOne == []QueueAtMostOne /\ [][DistributeFirst]_vars

\* A rank of a fleet of two has a DISTRIBUTE queued while a RESOLVE for it
\* waits in the transport.
C19_Witness ==
  /\ world_size = 2
  /\ \E r \in Ranks :
       /\ work[r] # << >>
       /\ work[r][1].job_type = DISTRIBUTE
       /\ \E s \in Ranks :
            /\ chan[s][r] # << >>
            /\ Head(chan[s][r]).job_type = RESOLVE

====
